---------------------------- MODULE Spec2Model ----------------------------
(***************************************************************************)
(* Model of the vault-navigator client core: VaultCache (TTL cache),       *)
(* VaultPathUtils (path and cache-key helpers) and VaultClient (list, read,*)
(* write, delete, testConnection, updateNamespace) talking to the store    *)
(* through the Next.js proxy.                                              *)
(*                                                                         *)
(* JavaScript strings are modelled as sequences of one-character strings,  *)
(* so that key building, prefix tests, splitting and substring search are  *)
(* computed as the code computes them.                                     *)
(***************************************************************************)
EXTENDS Integers, Sequences, FiniteSets, Bags, TLC

(***************************************************************************)
(* Bounds of the model                                                     *)
(***************************************************************************)
\* number of wire calls, namespace switches and clock advances in one behaviour
MaxEvents == 3
\* last clock value of the cache-only specification
MaxNow == 3
\* number of searches in one behaviour
MaxSearches == 2
\* length of the paths and namespaces given to buildCacheKey
MaxKeyLen == 2
\* length of the paths given to the other path utilities
MaxPathLen == 3
\* length of the longest path, below the mount, that the endless store answers
MaxTreeLen == 3

(***************************************************************************)
(* String primitives                                                       *)
(***************************************************************************)
\* String.prototype.startsWith
StartsWith(s, p) == Len(s) >= Len(p) /\ SubSeq(s, 1, Len(p)) = p

\* String.prototype.endsWith
EndsWith(s, p) == Len(s) >= Len(p) /\ SubSeq(s, Len(s) - Len(p) + 1, Len(s)) = p

\* String.prototype.includes
Includes(s, p) == \E i \in 1..(Len(s) - Len(p) + 1) : SubSeq(s, i, i + Len(p) - 1) = p

\* String.prototype.substring(n): the string without its first n characters
Substring(s, n) == SubSeq(s, n + 1, Len(s))

RECURSIVE SplitAcc(_, _, _)
SplitAcc(s, sep, cur) ==
    IF s = <<>> THEN <<cur>>
    ELSE IF Head(s) = sep THEN <<cur>> \o SplitAcc(Tail(s), sep, <<>>)
    ELSE SplitAcc(Tail(s), sep, Append(cur, Head(s)))

\* String.prototype.split(sep) for a one-character separator
Split(s, sep) == SplitAcc(s, sep, <<>>)

RECURSIVE Join(_, _)
\* Array.prototype.join(sep)
Join(parts, sep) ==
    IF parts = <<>> THEN <<>>
    ELSE IF Len(parts) = 1 THEN parts[1]
    ELSE parts[1] \o <<sep>> \o Join(Tail(parts), sep)

DigitChars == <<"0", "1", "2", "3", "4", "5", "6", "7", "8", "9">>

RECURSIVE Digits(_)
\* decimal rendering of a non-negative integer inside a template string
Digits(n) == IF n < 10 THEN <<DigitChars[n + 1]>>
             ELSE Digits(n \div 10) \o <<DigitChars[(n % 10) + 1]>>

\* order of the characters used by the store to sort the keys of a listing
Alphabet == <<"/", "0", "4", ":", "a", "c", "d", "e", "j", "k", "l", "n", "o", "r", "s", "t", "y">>

CharRank(c) == CHOOSE i \in 1..Len(Alphabet) : Alphabet[i] = c

RECURSIVE StrLess(_, _)
StrLess(s, t) ==
    IF t = <<>> THEN FALSE
    ELSE IF s = <<>> THEN TRUE
    ELSE IF Head(s) = Head(t) THEN StrLess(Tail(s), Tail(t))
    ELSE CharRank(Head(s)) < CharRank(Head(t))

RECURSIVE SortedSeq(_)
\* the elements of a finite set of strings as a sequence in ascending order
SortedSeq(S) ==
    IF S = {} THEN <<>>
    ELSE LET m == CHOOSE x \in S : \A y \in S \ {x} : StrLess(x, y)
         IN  <<m>> \o SortedSeq(S \ {m})

\* an optional value: <<>> is undefined / null, <<v>> is the value v
None == <<>>
Some(v) == <<v>>

(***************************************************************************)
(* lib/constants                                                           *)
(***************************************************************************)
DEFAULT_MOUNT == <<"s", "e", "c", "r", "e", "t">>
CACHE_TTL_LIST == 5 * 60 * 1000
CACHE_TTL_SECRET == 2 * 60 * 1000
NOT_FOUND == 404

(***************************************************************************)
(* VaultPathUtils                                                          *)
(***************************************************************************)
cleanSecretPath(path) ==
    IF StartsWith(path, DEFAULT_MOUNT \o <<"/">>)
    THEN Substring(path, Len(DEFAULT_MOUNT) + 1)
    ELSE path

V1 == <<"/", "v", "1", "/">>
SegData == <<"d", "a", "t", "a">>
SegMetadata == <<"m", "e", "t", "a", "d", "a", "t", "a">>

buildSecretUrl(path, segment) ==
    V1 \o DEFAULT_MOUNT \o <<"/">> \o segment \o <<"/">> \o cleanSecretPath(path)

buildListUrl(path) ==
    IF path = <<>> \/ path = DEFAULT_MOUNT
    THEN V1 \o DEFAULT_MOUNT \o <<"/">> \o SegMetadata
    ELSE IF StartsWith(path, DEFAULT_MOUNT \o <<"/">>)
    THEN V1 \o DEFAULT_MOUNT \o <<"/">> \o SegMetadata \o <<"/">>
            \o Substring(path, Len(DEFAULT_MOUNT) + 1)
    ELSE V1 \o DEFAULT_MOUNT \o <<"/">> \o SegMetadata \o <<"/">> \o path

StrRoot == <<"r", "o", "o", "t">>
PrefixList == <<"l", "i", "s", "t">>
PrefixSecret == <<"s", "e", "c", "r", "e", "t">>

\* a namespace is None or Some(string); the empty string is falsy
Truthy(ns) == ns # None /\ ns[1] # <<>>

\* a variant that builds the key from the path without the mount name
buildCacheKeyClean(prefix, path, namespace) ==
    prefix \o <<":">> \o cleanSecretPath(path) \o <<":">>
        \o (IF Truthy(namespace) THEN namespace[1] ELSE StrRoot)

buildCacheKey(prefix, path, namespace) ==
    prefix \o <<":">> \o path \o <<":">> \o (IF Truthy(namespace) THEN namespace[1] ELSE StrRoot)

\* a variant that forgets to drop the last segment
extractParentPathWhole(path) == path

extractParentPath(path) ==
    LET parts == Split(path, "/")
    IN  Join(SubSeq(parts, 1, Len(parts) - 1), "/")

RECURSIVE CollapseSlashes(_)
\* path.replace(/\/+/g, "/")
CollapseSlashes(s) ==
    IF Len(s) < 2 THEN s
    ELSE IF s[1] = "/" /\ s[2] = "/" THEN CollapseSlashes(Tail(s))
    ELSE <<s[1]>> \o CollapseSlashes(Tail(s))

\* s.replace(/\/$/, "")
StripTrailingSlash(s) ==
    IF s # <<>> /\ s[Len(s)] = "/" THEN SubSeq(s, 1, Len(s) - 1) ELSE s

\* a variant that removes the trailing slash before it collapses the slashes
normalizePathStripFirst(path) == CollapseSlashes(StripTrailingSlash(path))

normalizePath(path) == StripTrailingSlash(CollapseSlashes(path))

\* joinPaths(...segments): segments.filter(Boolean).join("/"), then normalizePath
joinPaths(segments) ==
    normalizePath(Join(SelectSeq(segments, LAMBDA x : x # <<>>), "/"))

(***************************************************************************)
(* VaultCache: a cache is a function from its keys to entries              *)
(* [data, timestamp, ttl, src]; src is a history field recording the wire  *)
(* call that produced the data and is never read by the code.              *)
(***************************************************************************)
EmptyCache == [k \in {} |-> 0]

\* a variant that expires an entry as soon as its age reaches the TTL
isExpiredAtTtl(entry, t) == t - entry.timestamp >= entry.ttl

\* a variant that compares the clock, not the age of the entry, with the TTL
isExpiredNoStamp(entry, t) == t > entry.ttl

isExpired(entry, t) == t - entry.timestamp > entry.ttl

\* the value returned by get: <<>> for null, <<data>> otherwise
CacheGet(c, key, t) ==
    IF key \notin DOMAIN c THEN None
    ELSE IF isExpired(c[key], t) THEN None
    ELSE Some(c[key].data)

\* the cache after get or has: an expired entry is deleted on access
CacheTouch(c, key, t) ==
    IF key \in DOMAIN c /\ isExpired(c[key], t)
    THEN [k \in DOMAIN c \ {key} |-> c[k]]
    ELSE c

CacheHas(c, key, t) == key \in DOMAIN c /\ ~isExpired(c[key], t)

CacheSet(c, key, data, ttl, t, src) ==
    [k \in DOMAIN c \cup {key} |->
        IF k = key THEN [data |-> data, timestamp |-> t, ttl |-> ttl, src |-> src]
        ELSE c[k]]

\* a variant that drops the whole cache instead of one key
CacheInvalidateAll(c, key) == EmptyCache

CacheInvalidate(c, key) == [k \in DOMAIN c \ {key} |-> c[k]]

\* a variant that keeps the live entries
CacheClearKeep(c) == c

CacheClear(c) == EmptyCache

CachePurgeExpired(c, t) ==
    [k \in {x \in DOMAIN c : ~isExpired(c[x], t)} |-> c[k]]

CachePurgeCount(c, t) == Cardinality({x \in DOMAIN c : isExpired(c[x], t)})

CacheSize(c) == Cardinality(DOMAIN c)

\* new RegExp(`^${pattern}`) for a pattern string made of letters, "." and
\* "(": a "(" opens a group that is never closed, which is a SyntaxError
RegExpThrows(pattern) == \E i \in 1..Len(pattern) : pattern[i] = "("

\* regex.test(key) for the regular expression ^pattern: a letter matches
\* itself and "." matches any character
RegExpTest(pattern, key) ==
    /\ Len(key) >= Len(pattern)
    /\ \A i \in 1..Len(pattern) : pattern[i] = "." \/ pattern[i] = key[i]

\* invalidatePattern(pattern) for a string pattern: the cache is left as it
\* was when the constructor of the regular expression throws
CacheInvalidatePattern(c, pattern) ==
    IF RegExpThrows(pattern) THEN c
    ELSE [k \in {x \in DOMAIN c : ~RegExpTest(pattern, x)} |-> c[k]]

(***************************************************************************)
(* Inputs of the model                                                     *)
(***************************************************************************)
PathA == <<"a">>
PathSecretA == DEFAULT_MOUNT \o <<"/", "a">>
PathK == <<"a", "/", "k">>
PathSecretK == DEFAULT_MOUNT \o <<"/", "a", "/", "k">>

\* paths given to readSecret, writeSecret and deleteSecret
SecretPaths == {PathK}
\* paths given to listSecrets
ListPaths == {<<>>, PathA}
\* the secrets the store can hold, by their path below the mount
StorePaths == {PathK}
\* data written by writeSecret; 0 in the store means that the secret is absent
DataValues == {2}
NsN == <<"n">>
\* values of config.namespace: undefined, "", "root", "n"
Namespaces == {None, Some(<<>>), Some(StrRoot), Some(NsN)}

\* the x-vault-namespace header of a request: set only for a truthy namespace
Header(ns) == IF Truthy(ns) THEN ns ELSE None
Headers == {Header(ns) : ns \in Namespaces}

\* clock advances: just less than the shorter TTL, just more than the longer
TickSteps == {CACHE_TTL_SECRET - 1, CACHE_TTL_LIST + 1}

\* texts a failing response carries in errors[0]
TextDeny == <<"d", "e", "n", "y">>
TextE404 == <<"e", " ", "4", "0", "4">>
\* the errors field of an error body: missing, [], [""], or one text
ErrorBodies == {None, Some(<<>>), Some(<< <<>> >>), Some(<<TextDeny>>), Some(<<TextE404>>)}
\* statuses of failing responses
ErrorStatuses == {403, NOT_FOUND, 500}

(***************************************************************************)
(* Responses and requests                                                  *)
(***************************************************************************)
\* kind: "none" no response yet, "ok" 2xx, "status" error status,
\* "noresp" axios error without response, "error" a rejection with a plain
\* Error, "nonerror" a rejection with a value that is not an Error
Resp(kind, status, errors, keys, data, msg) ==
    [kind |-> kind, status |-> status, errors |-> errors, keys |-> keys,
     data |-> data, msg |-> msg]

NoResp == Resp("none", 0, None, <<>>, 0, <<>>)
OkResp(keys, data) == Resp("ok", 200, None, keys, data, <<>>)
StatusResp(status, errors) == Resp("status", status, errors, <<>>, 0, <<>>)

\* a wire call: hdr is the x-vault-namespace header it carries; ns (the
\* namespace of the call) and ver (the version of the secret that the store
\* read or produced when it answered) are history fields
Req(op, path, key, ns, url, data) ==
    [op |-> op, path |-> path, key |-> key, hdr |-> Header(ns), ns |-> ns, url |-> url,
     data |-> data, phase |-> "sent", resp |-> NoResp, ver |-> 0]

MsgStatusPrefix == <<"R", "e", "q", "u", "e", "s", "t", " ", "f", "a", "i", "l", "e", "d", " ", "w", "i", "t", "h", " ", "s", "t", "a", "t", "u", "s", " ", "c", "o", "d", "e", " ">>
MsgNetwork == <<"N", "e", "t", "w", "o", "r", "k", " ", "E", "r", "r", "o", "r">>
MsgUnknown == <<"U", "n", "k", "n", "o", "w", "n", " ", "e", "r", "r", "o", "r", " ", "o", "c", "c", "u", "r", "r", "e", "d">>
Str404 == <<"4", "0", "4">>
UrlHealth == <<"/", "v", "1", "/", "s", "y", "s", "/", "h", "e", "a", "l", "t", "h">>

\* AxiosError.message of a response with an error status
AxiosMessage(resp) ==
    IF resp.kind = "status" THEN MsgStatusPrefix \o Digits(resp.status) ELSE MsgNetwork

\* response?.data?.errors?.[0], <<>> standing for undefined
FirstError(resp) ==
    IF resp.kind = "status" /\ resp.errors # None /\ Len(resp.errors[1]) > 0
    THEN resp.errors[1][1]
    ELSE <<>>

handleError(resp) ==
    IF resp.kind \in {"status", "noresp"}
    THEN [message |-> IF FirstError(resp) # <<>> THEN FirstError(resp) ELSE AxiosMessage(resp),
          errors |-> IF resp.kind = "status" THEN resp.errors ELSE None]
    ELSE [message |-> IF resp.kind = "error" THEN resp.msg ELSE MsgUnknown,
          errors |-> None]

NoError == [message |-> <<>>, errors |-> None]


(***************************************************************************)
(* State                                                                   *)
(***************************************************************************)
VARIABLES
    namespace,    \* config.namespace
    listCache,    \* VaultClient.listCache
    secretCache,  \* VaultClient.secretCache
    store,        \* the secrets held by the store, per namespace header
    inflight,     \* the bag of wire calls awaiting their continuation
    now,          \* Date.now()
    ticks,        \* number of clock advances so far
    calls,        \* number of wire calls issued so far
    switches,     \* number of namespace switches so far
    applied,      \* history: number of mutations the store applied, per secret
    returned,     \* history: version of the latest mutation that returned, per secret
    last,         \* history: the outcome of the latest client call that completed
    fresh,        \* history: <<kind, path>> pairs invalidated by a quiet mutation
    okCalls,      \* history: calls answered from the wire and not invalidated since
    tracked,      \* history: what set() stored per key (cache-only specification)
    search        \* the running searchSecrets call: its locals and its history

vars == <<namespace, listCache, secretCache, store, inflight, now, ticks, calls, switches,
          applied, returned, last, fresh, okCalls, tracked, search>>

(***************************************************************************)
(* History of the latest completed client call                             *)
(***************************************************************************)
\* outcome: "return" or "throw"; src is the origin of the entry a cache hit
\* returned, stale tells that the entry was fetched before a mutation of
\* the same secret that has returned, evicted is the number of cache
\* entries the call removed
NoSrc == [hdr |-> None, ver |-> 0]

Last(op, path, outcome, hit, items, secret, error, resp, src) ==
    [op |-> op, path |-> path, ns |-> namespace, outcome |-> outcome, hit |-> hit,
     items |-> items, secret |-> secret, error |-> error, resp |-> resp,
     src |-> src, stale |-> FALSE, evicted |-> 0]

Thrown(op, path, resp) ==
    Last(op, path, "throw", FALSE, <<>>, 0, handleError(resp), resp, NoSrc)
Returned(op, path, items, secret, resp) ==
    Last(op, path, "return", FALSE, items, secret, NoError, resp, NoSrc)

(***************************************************************************)
(* The store behind the proxy                                              *)
(***************************************************************************)
ListBase == V1 \o DEFAULT_MOUNT \o <<"/">> \o SegMetadata
DataBase == V1 \o DEFAULT_MOUNT \o <<"/">> \o SegData \o <<"/">>
MetaBase == V1 \o DEFAULT_MOUNT \o <<"/">> \o SegMetadata \o <<"/">>

\* the folder addressed by a list URL
UrlDir(url) ==
    LET rest == Substring(url, Len(ListBase))
    IN  StripTrailingSlash(IF StartsWith(rest, <<"/">>) THEN Substring(rest, 1) ELSE rest)

\* the secret addressed by the URL of a read, write or delete
UrlSecret(op, url) ==
    Substring(url, IF op = "delete" THEN Len(MetaBase) ELSE Len(DataBase))

\* the key under which the secret sp appears in the listing of dir
ChildKey(sp, dir) ==
    LET r == IF dir = <<>> THEN sp ELSE Substring(sp, Len(dir) + 1)
        parts == Split(r, "/")
    IN  IF Len(parts) > 1 THEN parts[1] \o <<"/">> ELSE parts[1]

\* the keys the store returns for dir: leaves by name, folders with a trailing slash
StoreKeys(st, dir) ==
    {ChildKey(sp, dir) : sp \in {x \in DOMAIN st :
        st[x] # 0 /\ (dir = <<>> \/ StartsWith(x, dir \o <<"/">>))}}

StoreList(st, url) ==
    IF StoreKeys(st, UrlDir(url)) = {}
    THEN StatusResp(NOT_FOUND, Some(<<>>))
    ELSE OkResp(SortedSeq(StoreKeys(st, UrlDir(url))), 0)

StoreRead(st, url) ==
    LET sp == UrlSecret("read", url)
    IN  IF sp \in DOMAIN st /\ st[sp] # 0
        THEN OkResp(<<>>, st[sp])
        ELSE StatusResp(NOT_FOUND, Some(<<>>))

StoreWrite(st, url, data) ==
    LET sp == UrlSecret("write", url)
    IN  IF sp \in DOMAIN st THEN [st EXCEPT ![sp] = data] ELSE st

StoreDelete(st, url) ==
    LET sp == UrlSecret("delete", url)
    IN  IF sp \in DOMAIN st THEN [st EXCEPT ![sp] = 0] ELSE st

(***************************************************************************)
(* The wire calls in flight                                                *)
(***************************************************************************)
One(req) == SetToBag({req})
Requests == BagToSet(inflight)

\* the request is sent; its promise is pending
Issue(req) ==
    /\ calls + switches + ticks < MaxEvents
    /\ inflight' = inflight (+) One(req)
    /\ calls' = calls + 1

\* the request req is answered: its promise settles with resp
Answer(req, resp, ver) ==
    inflight' = (inflight (-) One(req))
                   (+) One([req EXCEPT !.phase = "resp", !.resp = resp, !.ver = ver])

\* the continuation of req has run
Release(req) == inflight' = inflight (-) One(req)

\* req is the only call in flight
Quiet(req) == BagCardinality(inflight) = 1

Sent(req, ops) == req.phase = "sent" /\ req.op \in ops
Settled(req, op) == req.phase = "resp" /\ req.op = op

(***************************************************************************)
(* VaultClient.updateNamespace / clearCache                                *)
(***************************************************************************)
clearCache ==
    /\ listCache' = CacheClear(listCache)
    /\ secretCache' = CacheClear(secretCache)

UpdateNamespace(ns) ==
    /\ calls + switches + ticks < MaxEvents
    /\ switches' = switches + 1
    /\ namespace' = ns
    /\ clearCache
    /\ last' = [Last("updateNamespace", <<>>, "return", FALSE, <<>>, 0, NoError, NoResp,
                     NoSrc)
                   EXCEPT !.ns = ns, !.evicted = CacheSize(listCache) + CacheSize(secretCache)]
    /\ okCalls' = {}
    /\ UNCHANGED <<search, store, inflight, now, ticks, calls, applied, returned, fresh,
                   tracked>>

\* parentOf of the specification: the path without its last segment
ParentOf(p) ==
    LET slashes == {i \in 1..Len(p) : p[i] = "/"}
    IN  IF slashes = {} THEN <<>>
        ELSE SubSeq(p, 1, (CHOOSE i \in slashes : \A j \in slashes : j <= i) - 1)

\* the calls still known to be cached after the entry under key was invalidated
Forget(known, prefix, key) ==
    {o \in known : ~(o.kind = prefix /\ buildCacheKey(prefix, o.path, o.ns) = key)}

\* the calls known to be cached after a call was answered from the wire
Remember(known, prefix, req) ==
    {o \in known : ~(o.kind = prefix /\ o.path = req.path /\ o.ns = req.ns)}
        \cup {[kind |-> prefix, path |-> req.path, ns |-> req.ns, t0 |-> now]}

(***************************************************************************)
(* VaultClient.listSecrets                                                 *)
(***************************************************************************)
\* keys.map(...) of listSecrets
ListResults(path, keys) ==
    LET basePath == IF path # <<>> /\ path # DEFAULT_MOUNT THEN path ELSE <<>>
    IN  [i \in 1..Len(keys) |->
            [name |-> StripTrailingSlash(keys[i]),
             path |-> IF basePath # <<>> THEN joinPaths(<<basePath, keys[i]>>) ELSE keys[i],
             isFolder |-> EndsWith(keys[i], <<"/">>)]]

\* the cache lookup of listSecrets finds a live entry
ListHit(path) ==
    LET cacheKey == buildCacheKey(PrefixList, path, namespace)
        cached == CacheGet(listCache, cacheKey, now)
    IN  /\ cached # None
        /\ listCache' = CacheTouch(listCache, cacheKey, now)
        /\ last' = [Returned("list", path, cached[1], 0, NoResp)
                      EXCEPT !.hit = TRUE, !.src = listCache[cacheKey].src]
        /\ fresh' = fresh \ {<<"list", path>>}
        /\ UNCHANGED <<search, namespace, secretCache, store, inflight, now, ticks, switches,
                       calls, applied, returned, okCalls, tracked>>

\* the lookup misses and the LIST request is issued
ListMiss(path) ==
    LET cacheKey == buildCacheKey(PrefixList, path, namespace)
        cached == CacheGet(listCache, cacheKey, now)
    IN  /\ cached = None
        /\ listCache' = CacheTouch(listCache, cacheKey, now)
        /\ Issue(Req("list", path, cacheKey, namespace, buildListUrl(path), 0))
        /\ fresh' = fresh \ {<<"list", path>>}
        /\ UNCHANGED <<search, namespace, secretCache, store, now, ticks, switches, applied,
                       returned, last, okCalls, tracked>>

\* the catch block of listSecrets: a message containing "404" yields []
ListCatch(req) ==
    IF Includes(handleError(req.resp).message, Str404)
    THEN Returned("list", req.path, <<>>, 0, req.resp)
    ELSE Thrown("list", req.path, req.resp)

\* a variant that caches the empty array returned for a not-found listing
ListDoneCacheNotFound(req) ==
    LET results == ListResults(req.path, req.resp.keys)
    IN  /\ Settled(req, "list")
        /\ IF req.resp.kind = "ok" \/ ListCatch(req).outcome = "return"
           THEN /\ listCache' = CacheSet(listCache, req.key,
                                         IF req.resp.kind = "ok" THEN results ELSE <<>>,
                                         CACHE_TTL_LIST, now, [hdr |-> req.hdr, ver |-> 0])
                /\ last' = IF req.resp.kind = "ok"
                           THEN Returned("list", req.path, results, 0, req.resp)
                           ELSE ListCatch(req)
                /\ okCalls' = Remember(okCalls, PrefixList, req)
           ELSE /\ last' = ListCatch(req)
                /\ UNCHANGED <<listCache, okCalls>>
        /\ Release(req)
        /\ UNCHANGED <<search, namespace, secretCache, store, now, ticks, switches, calls,
                       applied, returned, fresh, tracked>>

\* the continuation of listSecrets after the awaited request
ListDone(req) ==
    LET results == ListResults(req.path, req.resp.keys)
    IN  /\ Settled(req, "list")
        /\ IF req.resp.kind = "ok"
           THEN /\ listCache' = CacheSet(listCache, req.key, results, CACHE_TTL_LIST, now,
                                         [hdr |-> req.hdr, ver |-> 0])
                /\ last' = Returned("list", req.path, results, 0, req.resp)
                /\ okCalls' = Remember(okCalls, PrefixList, req)
           ELSE /\ last' = ListCatch(req)
                /\ UNCHANGED <<listCache, okCalls>>
        /\ Release(req)
        /\ UNCHANGED <<search, namespace, secretCache, store, now, ticks, switches, calls,
                       applied, returned, fresh, tracked>>

(***************************************************************************)
(* VaultClient.readSecret                                                  *)
(***************************************************************************)
\* the entry under key was fetched before a mutation of its secret that has returned
Stale(key, path) ==
    LET src == secretCache[key].src
        sp == cleanSecretPath(path)
    IN  sp \in StorePaths /\ src.ver < returned[src.hdr][sp]

ReadHit(path) ==
    LET cacheKey == buildCacheKey(PrefixSecret, path, namespace)
        cached == CacheGet(secretCache, cacheKey, now)
    IN  /\ cached # None
        /\ secretCache' = CacheTouch(secretCache, cacheKey, now)
        /\ last' = [Returned("read", path, <<>>, cached[1].data, NoResp)
                      EXCEPT !.hit = TRUE, !.src = secretCache[cacheKey].src,
                             !.stale = Stale(cacheKey, path)]
        /\ fresh' = fresh \ {<<"secret", path>>}
        /\ UNCHANGED <<search, namespace, listCache, store, inflight, now, ticks, switches,
                       calls, applied, returned, okCalls, tracked>>

ReadMiss(path) ==
    LET cacheKey == buildCacheKey(PrefixSecret, path, namespace)
        cached == CacheGet(secretCache, cacheKey, now)
    IN  /\ cached = None
        /\ secretCache' = CacheTouch(secretCache, cacheKey, now)
        /\ Issue(Req("read", path, cacheKey, namespace, buildSecretUrl(path, SegData), 0))
        /\ fresh' = fresh \ {<<"secret", path>>}
        /\ UNCHANGED <<search, namespace, listCache, store, now, ticks, switches, applied,
                       returned, last, okCalls, tracked>>

ReadDone(req) ==
    LET result == [path |-> req.path, data |-> req.resp.data]
    IN  /\ Settled(req, "read")
        /\ IF req.resp.kind = "ok"
           THEN /\ secretCache' = CacheSet(secretCache, req.key, result, CACHE_TTL_SECRET, now,
                                           [hdr |-> req.hdr, ver |-> req.ver])
                /\ last' = Returned("read", req.path, <<>>, result.data, req.resp)
                /\ okCalls' = Remember(okCalls, PrefixSecret, req)
           ELSE /\ last' = Thrown("read", req.path, req.resp)
                /\ UNCHANGED <<secretCache, okCalls>>
        /\ Release(req)
        /\ UNCHANGED <<search, namespace, listCache, store, now, ticks, switches, calls,
                       applied, returned, fresh, tracked>>

(***************************************************************************)
(* VaultClient.writeSecret / deleteSecret                                  *)
(***************************************************************************)
WriteStart(path, data) ==
    /\ Issue(Req("write", path, <<>>, namespace, buildSecretUrl(path, SegData), data))
    /\ UNCHANGED <<search, namespace, listCache, secretCache, store, now, ticks, switches,
                   applied, returned, last, fresh, okCalls, tracked>>

DeleteStart(path) ==
    /\ Issue(Req("delete", path, <<>>, namespace, buildSecretUrl(path, SegMetadata), 0))
    /\ UNCHANGED <<search, namespace, listCache, secretCache, store, now, ticks, switches,
                   applied, returned, last, fresh, okCalls, tracked>>

\* the mutation of req has returned: its version of the secret is the least
\* that a later read may serve
Returns(req) ==
    LET sp == UrlSecret(req.op, req.url)
    IN  IF sp \in StorePaths /\ req.ver > returned[req.hdr][sp]
        THEN [returned EXCEPT ![req.hdr][sp] = req.ver]
        ELSE returned

\* the invalidations after the awaited request of writeSecret and deleteSecret
Invalidate(req) ==
    LET cacheKey == buildCacheKey(PrefixSecret, req.path, namespace)
        parentPath == extractParentPath(req.path)
        listCacheKey == buildCacheKey(PrefixList, parentPath, namespace)
    IN  /\ secretCache' = CacheInvalidate(secretCache, cacheKey)
        /\ listCache' = CacheInvalidate(listCache, listCacheKey)
        /\ last' = [Returned(req.op, req.path, <<>>, 0, req.resp)
                      EXCEPT !.evicted = Cardinality({cacheKey} \cap DOMAIN secretCache)
                               + Cardinality({listCacheKey} \cap DOMAIN listCache)]
        /\ okCalls' = Forget(Forget(okCalls, PrefixSecret, cacheKey), PrefixList, listCacheKey)
        /\ fresh' = IF Quiet(req)
                    THEN fresh \cup {<<"secret", req.path>>, <<"list", ParentOf(req.path)>>}
                    ELSE fresh
        /\ returned' = Returns(req)

\* the continuation of writeSecret after the awaited POST
WriteDone(req) ==
    /\ Settled(req, "write")
    /\ IF req.resp.kind = "ok"
       THEN Invalidate(req)
       ELSE /\ last' = Thrown("write", req.path, req.resp)
            /\ UNCHANGED <<secretCache, listCache, okCalls, fresh, returned>>
    /\ Release(req)
    /\ UNCHANGED <<search, namespace, store, now, ticks, switches, calls, applied, tracked>>

\* the continuation of deleteSecret after the awaited DELETE
DeleteDone(req) ==
    /\ Settled(req, "delete")
    /\ IF req.resp.kind = "ok"
       THEN Invalidate(req)
       ELSE /\ last' = Thrown("delete", req.path, req.resp)
            /\ UNCHANGED <<secretCache, listCache, okCalls, fresh, returned>>
    /\ Release(req)
    /\ UNCHANGED <<search, namespace, store, now, ticks, switches, calls, applied, tracked>>

(***************************************************************************)
(* VaultClient.testConnection                                              *)
(***************************************************************************)
HealthStart ==
    /\ Issue(Req("health", <<>>, <<>>, namespace, UrlHealth, 0))
    /\ UNCHANGED <<search, namespace, listCache, secretCache, store, now, ticks, switches,
                   applied, returned, last, fresh, okCalls, tracked>>

\* a variant that rethrows the failure of the probe
HealthDoneRethrow(req) ==
    /\ Settled(req, "health")
    /\ last' = IF req.resp.kind = "ok"
               THEN Returned("health", <<>>, <<>>, 1, req.resp)
               ELSE Thrown("health", <<>>, req.resp)
    /\ Release(req)
    /\ UNCHANGED <<search, namespace, listCache, secretCache, store, now, ticks, switches,
                   calls, applied, returned, fresh, okCalls, tracked>>

\* the continuation of testConnection: {success: true} or
\* {success: false, error: vaultError.message}; it never rethrows
HealthDone(req) ==
    /\ Settled(req, "health")
    /\ last' = IF req.resp.kind = "ok"
               THEN Returned("health", <<>>, <<>>, 1, req.resp)
               ELSE [Returned("health", <<>>, <<>>, 0, req.resp)
                       EXCEPT !.error = [message |-> handleError(req.resp).message,
                                         errors |-> None]]
    /\ Release(req)
    /\ UNCHANGED <<search, namespace, listCache, secretCache, store, now, ticks, switches,
                   calls, applied, returned, fresh, okCalls, tracked>>

(***************************************************************************)
(* The proxy and the store answer a request                                *)
(***************************************************************************)
\* the request reaches the store and is answered from its contents
Serve(req) ==
    LET st == store[req.hdr]
        sp == UrlSecret(req.op, req.url)
        counted == req.op \in {"read", "write", "delete"} /\ sp \in StorePaths
        mutates == req.op \in {"write", "delete"}
        ver == IF ~counted THEN 0
               ELSE IF mutates THEN applied[req.hdr][sp] + 1 ELSE applied[req.hdr][sp]
    IN  /\ Sent(req, {"list", "read", "write", "delete", "health"})
        /\ store' = IF req.op = "write"
                    THEN [store EXCEPT ![req.hdr] = StoreWrite(st, req.url, req.data)]
                    ELSE IF req.op = "delete"
                    THEN [store EXCEPT ![req.hdr] = StoreDelete(st, req.url)]
                    ELSE store
        /\ applied' = IF counted /\ mutates
                      THEN [applied EXCEPT ![req.hdr][sp] = ver]
                      ELSE applied
        /\ Answer(req, IF req.op = "list" THEN StoreList(st, req.url)
                       ELSE IF req.op = "read" THEN StoreRead(st, req.url)
                       ELSE OkResp(<<>>, 0), ver)
        /\ UNCHANGED <<search, namespace, listCache, secretCache, now, ticks, switches, calls,
                       returned, last, fresh, okCalls, tracked>>

\* a LIST request is answered with a 2xx body that carries no keys
ServeEmpty(req) ==
    /\ Sent(req, {"list"})
    /\ Answer(req, OkResp(<<>>, 0), 0)
    /\ UNCHANGED <<search, namespace, listCache, secretCache, store, now, ticks, switches,
                   calls, applied, returned, last, fresh, okCalls, tracked, search>>

\* the request fails with an error status and an error body
ServeStatus(req, status, errors) ==
    /\ Sent(req, {"list", "read", "write", "delete", "health"})
    /\ Answer(req, StatusResp(status, errors), 0)
    /\ UNCHANGED <<search, namespace, listCache, secretCache, store, now, ticks, switches,
                   calls, applied, returned, last, fresh, okCalls, tracked, search>>

\* the request is rejected without a response: a network error (axios
\* error), a plain Error, or a value that is not an Error
ServeReject(req, kind) ==
    /\ Sent(req, {"list", "read", "write", "delete", "health"})
    /\ Answer(req, Resp(kind, 0, None, <<>>, 0, IF kind = "error" THEN TextE404 ELSE <<>>), 0)
    /\ UNCHANGED <<search, namespace, listCache, secretCache, store, now, ticks, switches,
                   calls, applied, returned, last, fresh, okCalls, tracked, search>>

(***************************************************************************)
(* Time                                                                    *)
(***************************************************************************)
Tick(d) ==
    /\ calls + switches + ticks < MaxEvents
    /\ now' = now + d
    /\ ticks' = ticks + 1
    /\ UNCHANGED <<search, namespace, listCache, secretCache, store, inflight, calls, switches,
                   applied, returned, last, fresh, okCalls, tracked, search>>

(***************************************************************************)
(* VaultClient.searchSecrets                                               *)
(***************************************************************************)
UpperChars == <<"A", "J", "K", "T">>
LowerChars == <<"a", "j", "k", "t">>

\* String.prototype.toLowerCase
toLowerCase(s) ==
    [i \in 1..Len(s) |->
        IF \E j \in 1..Len(UpperChars) : UpperChars[j] = s[i]
        THEN LowerChars[CHOOSE j \in 1..Len(UpperChars) : UpperChars[j] = s[i]]
        ELSE s[i]]

\* JSON.stringify(secret.data): the data n of the model is the object {"t": n},
\* and a missing data field was replaced by {} in readSecret
Stringify(data) ==
    IF data = 0 THEN <<"{", "}">>
    ELSE <<"{", "\"", "t", "\"", ":">> \o Digits(data) \o <<"}">>

\* Array.prototype.slice(0, n) for n >= 0
Slice(results, n) == SubSeq(results, 1, IF Len(results) < n THEN Len(results) ELSE n)

\* the state of a search: the arguments, the locals results and
\* processedPaths, the branches waiting for a listSecrets or readSecret call,
\* and the resolved value; the other fields are history: late tells for each
\* element of results whether it was pushed after the signal was set, made
\* is the log of the listSecrets and readSecret calls, wire counts the wire
\* calls, failed tells that a wire call failed and readFailed which reads did,
\* repeated that listSecrets or readSecret was called again for a path
NoSearch ==
    [status |-> "idle", runs |-> 0, query |-> <<>>, basePath |-> <<>>, maxResults |-> 0,
     maxDepth |-> 0, aborted |-> FALSE, results |-> <<>>, processedPaths |-> {},
     waiting |-> {}, returned |-> <<>>, outcome |-> "none",
     preAborted |-> FALSE, late |-> <<>>, made |-> {}, wire |-> 0, failed |-> FALSE,
     readFailed |-> {}, repeated |-> FALSE]

NewSearch(query, basePath, signalAborted, maxResults, maxDepth) ==
    [NoSearch EXCEPT !.status = "running", !.runs = search.runs + 1, !.query = query,
                     !.basePath = basePath, !.maxResults = maxResults,
                     !.maxDepth = maxDepth, !.aborted = signalAborted,
                     !.preAborted = signalAborted]

\* a branch of the search suspended at an await: item is the leaf that is
\* read (the folder itself in a listing), and cached holds the value of a
\* call that was answered from the cache
Branch(op, path, depth, item, cached) ==
    [op |-> op, path |-> path, depth |-> depth, item |-> item, cached |-> cached]

\* the work done in one synchronous run: the search, both caches and the
\* requests sent
Work(s, lc, sc, out) == [s |-> s, lc |-> lc, sc |-> sc, out |-> out]

\* a variant of the guards that does not look at the signal
SearchGuardNoSignal(s, depth) == Len(s.results) >= s.maxResults \/ depth > s.maxDepth

\* a variant of the guards that does not look at the depth
SearchGuardNoDepth(s, depth) == s.aborted \/ Len(s.results) >= s.maxResults

\* the guards at the top of searchRecursive: TRUE when it returns at once
SearchGuard(s, depth) ==
    s.aborted \/ Len(s.results) >= s.maxResults \/ depth > s.maxDepth

\* a variant of the guard that does not look at the signal
ItemGuardNoSignal(s) == Len(s.results) >= s.maxResults

\* the guard at the top of the callback of items.map
ItemGuard(s) == s.aborted \/ Len(s.results) >= s.maxResults

\* this.listSecrets(path) up to its await, called by a branch at depth
CallList(w, path, depth) ==
    LET cacheKey == buildCacheKey(PrefixList, path, namespace)
        cached == CacheGet(w.lc, cacheKey, now)
        s1 == [w.s EXCEPT !.made = @ \cup {[op |-> "list", path |-> path,
                                           late |-> w.s.aborted]},
                          !.repeated = @ \/ \E c \in w.s.made :
                                                c.op = "list" /\ c.path = path,
                          !.waiting = @ \cup {Branch("list", path, depth,
                                                     [name |-> <<>>, path |-> path,
                                                      isFolder |-> TRUE], cached)}]
    IN  IF cached # None
        THEN Work(s1, CacheTouch(w.lc, cacheKey, now), w.sc, w.out)
        ELSE Work([s1 EXCEPT !.wire = @ + 1], CacheTouch(w.lc, cacheKey, now), w.sc,
                  w.out (+) One(Req("list", path, cacheKey, namespace, buildListUrl(path), 0)))

\* this.readSecret(path) up to its await, called for the leaf item
CallRead(w, path, depth, item) ==
    LET cacheKey == buildCacheKey(PrefixSecret, path, namespace)
        cached == CacheGet(w.sc, cacheKey, now)
        s1 == [w.s EXCEPT !.made = @ \cup {[op |-> "read", path |-> path,
                                           late |-> w.s.aborted]},
                          !.repeated = @ \/ \E c \in w.s.made :
                                                c.op = "read" /\ c.path = path,
                          !.waiting = @ \cup {Branch("read", path, depth, item, cached)}]
    IN  IF cached # None
        THEN Work(s1, w.lc, CacheTouch(w.sc, cacheKey, now), w.out)
        ELSE Work([s1 EXCEPT !.wire = @ + 1], w.lc, CacheTouch(w.sc, cacheKey, now),
                  w.out (+) One(Req("read", path, cacheKey, namespace,
                                    buildSecretUrl(path, SegData), 0)))

\* searchRecursive(currentPath, depth) up to its await
searchRecursive(w, currentPath, depth) ==
    IF SearchGuard(w.s, depth) THEN w ELSE CallList(w, currentPath, depth)

\* a variant that pushes without looking for the path in results
PushNoFind(s, item, fullPath) ==
    [s EXCEPT !.results = Append(@, [item EXCEPT !.path = fullPath]),
              !.late = Append(@, s.aborted)]

\* results.push({...item, path: fullPath}) unless results.find finds the path
Push(s, item, fullPath) ==
    IF \E i \in 1..Len(s.results) : s.results[i].path = fullPath
    THEN s
    ELSE [s EXCEPT !.results = Append(@, [item EXCEPT !.path = fullPath]),
                   !.late = Append(@, s.aborted)]

\* the callback of items.map for one item, up to its await
ProcessItem(w, currentPath, depth, item) ==
    LET fullPath == IF currentPath # <<>> THEN currentPath \o <<"/">> \o item.name
                    ELSE item.name
        s1 == [w.s EXCEPT !.processedPaths = @ \cup {fullPath}]
        s2 == IF Includes(toLowerCase(item.name), toLowerCase(s1.query))
              THEN Push(s1, item, fullPath)
              ELSE s1
        w2 == [w EXCEPT !.s = s2]
    IN  IF ItemGuard(w.s) THEN w
        ELSE IF fullPath \in w.s.processedPaths THEN w
        ELSE IF item.isFolder THEN searchRecursive(w2, fullPath, depth + 1)
        ELSE CallRead(w2, fullPath, depth, item)

RECURSIVE ProcessItems(_, _, _, _)
\* items.map(...): the callbacks run one after the other, each up to its await
ProcessItems(w, currentPath, depth, items) ==
    IF items = <<>> THEN w
    ELSE ProcessItems(ProcessItem(w, currentPath, depth, Head(items)), currentPath, depth,
                      Tail(items))

\* the branches whose call was answered from the cache: their continuations
\* run before the next event is taken from the event loop
Ready == {b \in search.waiting : b.cached # None}

\* the state after one synchronous run of the search
Commit(w, flight) ==
    /\ search' = w.s
    /\ listCache' = w.lc
    /\ secretCache' = w.sc
    /\ inflight' = flight (+) w.out
    /\ calls' = calls + BagCardinality(w.out)
    /\ UNCHANGED <<namespace, store, now, ticks, switches, applied, returned, last, fresh,
                   okCalls, tracked>>

\* searchSecrets(query, basePath, signal, maxResults, maxDepth) up to its
\* first await; signalAborted tells whether the signal is aborted already
SearchStart(query, basePath, signalAborted, maxResults, maxDepth) ==
    /\ search.status # "running"
    /\ search.runs < MaxSearches
    /\ Commit(searchRecursive(Work(NewSearch(query, basePath, signalAborted, maxResults,
                                             maxDepth),
                                   listCache, secretCache, EmptyBag),
                              basePath, 0),
              inflight)

\* the caller aborts the signal while the search runs
Abort ==
    /\ search.status = "running"
    /\ ~search.aborted
    /\ Ready = {}
    /\ search' = [search EXCEPT !.aborted = TRUE]
    /\ UNCHANGED <<namespace, listCache, secretCache, store, inflight, now, ticks, calls,
                   switches, applied, returned, last, fresh, okCalls, tracked>>

\* a variant of the catch block that rethrows: the search rejects
SearchCatchRethrow(s) == [s EXCEPT !.status = "done", !.outcome = "throw", !.waiting = {}]

\* the catch block around listSecrets and Promise.all: nothing is rethrown
SearchCatch(s) == s

\* the continuation of searchRecursive after listSecrets: items.map
AfterList(s, lc, b, items, flight) ==
    Commit(ProcessItems(Work([s EXCEPT !.waiting = @ \ {b}], lc, secretCache, EmptyBag),
                        b.path, b.depth, items),
           flight)

\* the continuation of the callback after readSecret: the content match
AfterRead(s, sc, b, data, flight) ==
    LET s0 == [s EXCEPT !.waiting = @ \ {b}]
        secretString == toLowerCase(Stringify(data))
    IN  Commit(Work(IF Includes(secretString, toLowerCase(s.query))
                    THEN Push(s0, b.item, b.path)
                    ELSE s0,
                    listCache, sc, EmptyBag),
               flight)

\* the LIST request of a branch was answered: listSecrets finishes, and
\* searchRecursive goes on with the items or catches the error
SearchListDone(req) ==
    /\ search.status = "running"
    /\ Ready = {}
    /\ Settled(req, "list")
    /\ \E b \in search.waiting :
          /\ b.op = "list" /\ b.path = req.path /\ b.cached = None
          /\ LET results == ListResults(req.path, req.resp.keys)
                 src == [hdr |-> req.hdr, ver |-> 0]
             IN  IF req.resp.kind = "ok"
                 THEN AfterList(search,
                                CacheSet(listCache, req.key, results, CACHE_TTL_LIST, now, src),
                                b, results, inflight (-) One(req))
                 ELSE IF ListCatch(req).outcome = "return"
                 THEN AfterList([search EXCEPT !.failed = TRUE], listCache, b,
                                ListCatch(req).items, inflight (-) One(req))
                 ELSE AfterList(SearchCatch([search EXCEPT !.failed = TRUE]), listCache, b,
                                <<>>, inflight (-) One(req))

\* listSecrets was answered from the cache
SearchListCached(b) ==
    /\ search.status = "running"
    /\ b.op = "list" /\ b.cached # None
    /\ AfterList(search, listCache, b, b.cached[1], inflight)

\* the GET request of a leaf was answered: readSecret finishes, and the
\* callback goes on with the content match or catches the error
SearchReadDone(req) ==
    /\ search.status = "running"
    /\ Ready = {}
    /\ Settled(req, "read")
    /\ \E b \in search.waiting :
          /\ b.op = "read" /\ b.path = req.path /\ b.cached = None
          /\ LET result == [path |-> req.path, data |-> req.resp.data]
                 src == [hdr |-> req.hdr, ver |-> req.ver]
             IN  IF req.resp.kind = "ok"
                 THEN AfterRead(search,
                                CacheSet(secretCache, req.key, result, CACHE_TTL_SECRET, now,
                                         src),
                                b, result.data, inflight (-) One(req))
                 ELSE \* the catch block around readSecret rethrows nothing
                      Commit(Work([search EXCEPT !.waiting = @ \ {b},
                                                 !.failed = TRUE,
                                                 !.readFailed = @ \cup {b.path}],
                                  listCache, secretCache, EmptyBag),
                             inflight (-) One(req))

\* readSecret was answered from the cache
SearchReadCached(b) ==
    /\ search.status = "running"
    /\ b.op = "read" /\ b.cached # None
    /\ AfterRead(search, secretCache, b, b.cached[1].data, inflight)

\* a variant of the return statement without the final slice
SearchResultAll(s) == s.results

\* return results.slice(0, maxResults)
SearchResult(s) == Slice(s.results, s.maxResults)

\* a variant that does not wait for the branches
AllSettledAtOnce(s) == TRUE

\* await Promise.all(promises) in every searchRecursive and await
\* searchRecursive(basePath): no branch is suspended any more
AllSettled(s) == s.waiting = {}

\* every branch has finished: searchSecrets resolves
SearchReturn ==
    /\ search.status = "running"
    /\ AllSettled(search)
    /\ search' = [search EXCEPT !.status = "done", !.outcome = "return",
                                !.returned = SearchResult(search)]
    /\ UNCHANGED <<namespace, listCache, secretCache, store, inflight, now, ticks, calls,
                   switches, applied, returned, last, fresh, okCalls, tracked>>

(***************************************************************************)
(* The client specification: the calls of the client overlapping freely,   *)
(* against a store that answers or fails with a server error, while the    *)
(* clock advances                                                          *)
(***************************************************************************)
NoLast == [op |-> "none", path |-> <<>>, ns |-> None, outcome |-> "none", hit |-> FALSE,
           items |-> <<>>, secret |-> 0, error |-> NoError, resp |-> NoResp,
           src |-> NoSrc, stale |-> FALSE, evicted |-> 0]

\* the client is constructed without a namespace; updateNamespace sets one later
Init ==
    /\ namespace = None
    /\ listCache = EmptyCache
    /\ secretCache = EmptyCache
    /\ store = [h \in Headers |-> [sp \in StorePaths |-> IF sp = PathK THEN 1 ELSE 0]]
    /\ inflight = EmptyBag
    /\ now = 0
    /\ ticks = 0
    /\ calls = 0
    /\ switches = 0
    /\ applied = [h \in Headers |-> [sp \in StorePaths |-> 0]]
    /\ returned = [h \in Headers |-> [sp \in StorePaths |-> 0]]
    /\ last = NoLast
    /\ fresh = {}
    /\ okCalls = {}
    /\ tracked = EmptyCache
    /\ search = NoSearch

Next ==
    \/ \E ns \in Namespaces : UpdateNamespace(ns)
    \/ \E path \in ListPaths : ListHit(path)
    \/ \E path \in ListPaths : ListMiss(path)
    \/ \E path \in SecretPaths : ReadHit(path)
    \/ \E path \in SecretPaths : ReadMiss(path)
    \/ \E path \in SecretPaths, data \in DataValues : WriteStart(path, data)
    \/ \E path \in SecretPaths : DeleteStart(path)
    \/ HealthStart
    \/ \E req \in Requests : ListDone(req)
    \/ \E req \in Requests : ReadDone(req)
    \/ \E req \in Requests : WriteDone(req)
    \/ \E req \in Requests : DeleteDone(req)
    \/ \E req \in Requests : HealthDone(req)
    \/ \E req \in Requests : Serve(req)
    \/ \E req \in Requests : ServeEmpty(req)
    \/ \E req \in Requests : ServeStatus(req, 500, None)
    \/ \E d \in TickSteps : Tick(d)

Spec == Init /\ [][Next]_vars

(***************************************************************************)
(* The error-handling specification: one call at a time, in a fixed        *)
(* namespace and without clock advances, against a store that may fail in  *)
(* every way                                                               *)
(***************************************************************************)
Idle == inflight = EmptyBag

NextErr ==
    \/ \E path \in ListPaths : ListHit(path)
    \/ \E path \in ListPaths : Idle /\ ListMiss(path)
    \/ \E path \in SecretPaths : ReadHit(path)
    \/ \E path \in SecretPaths : Idle /\ ReadMiss(path)
    \/ \E path \in SecretPaths, data \in DataValues : Idle /\ WriteStart(path, data)
    \/ \E path \in SecretPaths : Idle /\ DeleteStart(path)
    \/ Idle /\ HealthStart
    \/ \E req \in Requests : ListDone(req)
    \/ \E req \in Requests : ReadDone(req)
    \/ \E req \in Requests : WriteDone(req)
    \/ \E req \in Requests : DeleteDone(req)
    \/ \E req \in Requests : HealthDone(req)
    \/ \E req \in Requests : Serve(req)
    \/ \E req \in Requests, status \in ErrorStatuses, errors \in ErrorBodies :
          ServeStatus(req, status, errors)
    \/ \E req \in Requests, kind \in {"noresp", "error", "nonerror"} : ServeReject(req, kind)

SpecErr == Init /\ [][NextErr]_vars
(***************************************************************************)
(* The cache specification: the operations of one VaultCache, here the     *)
(* listing cache, called with arbitrary keys, values and TTLs while the    *)
(* clock advances one millisecond at a time                                *)
(***************************************************************************)
CacheKeys == {<<"a", "k">>, <<"k">>}
\* pattern strings: two prefixes, the wildcard and an open parenthesis
CachePatterns == {<<"a">>, <<"k">>, <<".">>, <<"(">>}
CacheValues == {1, 2}
CacheTtls == {0, 1, 2}

\* history of the latest get: its result, and what set() had stored
GetRecord(key) ==
    [op |-> "get", key |-> key, outcome |-> "return",
     result |-> CacheGet(listCache, key, now), at |-> now,
     known |-> key \in DOMAIN tracked,
     stored |-> IF key \in DOMAIN tracked THEN tracked[key]
                ELSE [data |-> 0, timestamp |-> 0, ttl |-> 0, src |-> NoSrc]]

CGet(key) ==
    /\ listCache' = CacheTouch(listCache, key, now)
    /\ last' = GetRecord(key)
    /\ UNCHANGED <<search, namespace, secretCache, store, applied, returned, inflight, now,
                   ticks, switches, calls, fresh, okCalls, tracked>>

CHas(key) ==
    /\ listCache' = CacheTouch(listCache, key, now)
    /\ last' = [op |-> "has", key |-> key, outcome |-> "return",
                result |-> CacheHas(listCache, key, now)]
    /\ UNCHANGED <<search, namespace, secretCache, store, applied, returned, inflight, now,
                   ticks, switches, calls, fresh, okCalls, tracked>>

CSet(key, data, ttl) ==
    /\ listCache' = CacheSet(listCache, key, data, ttl, now, NoSrc)
    /\ tracked' = CacheSet(tracked, key, data, ttl, now, NoSrc)
    /\ last' = [op |-> "set", key |-> key, outcome |-> "return"]
    /\ UNCHANGED <<search, namespace, secretCache, store, applied, returned, inflight, now,
                   ticks, switches, calls, fresh, okCalls>>

CInvalidate(key) ==
    /\ listCache' = CacheInvalidate(listCache, key)
    /\ tracked' = [k \in DOMAIN tracked \ {key} |-> tracked[k]]
    /\ last' = [op |-> "invalidate", key |-> key, outcome |-> "return"]
    /\ UNCHANGED <<search, namespace, secretCache, store, applied, returned, inflight, now,
                   ticks, switches, calls, fresh, okCalls>>

CClear ==
    /\ listCache' = CacheClear(listCache)
    /\ tracked' = EmptyCache
    /\ last' = [op |-> "clear", key |-> <<>>, outcome |-> "return"]
    /\ UNCHANGED <<search, namespace, secretCache, store, applied, returned, inflight, now,
                   ticks, switches, calls, fresh, okCalls>>

CPurgeExpired ==
    /\ listCache' = CachePurgeExpired(listCache, now)
    /\ last' = [op |-> "purgeExpired", key |-> <<>>, outcome |-> "return",
                result |-> CachePurgeCount(listCache, now)]
    /\ UNCHANGED <<search, namespace, secretCache, store, applied, returned, inflight, now,
                   ticks, switches, calls, fresh, okCalls, tracked>>

CInvalidatePattern(pattern) ==
    /\ listCache' = CacheInvalidatePattern(listCache, pattern)
    /\ tracked' = CacheInvalidatePattern(tracked, pattern)
    /\ last' = [op |-> "invalidatePattern", key |-> pattern,
                outcome |-> IF RegExpThrows(pattern) THEN "throw" ELSE "return"]
    /\ UNCHANGED <<search, namespace, secretCache, store, applied, returned, inflight, now,
                   ticks, switches, calls, fresh, okCalls>>

CSize ==
    /\ last' = [op |-> "size", key |-> <<>>, outcome |-> "return",
                result |-> CacheSize(listCache)]
    /\ UNCHANGED <<search, namespace, listCache, secretCache, store, applied, returned,
                   inflight, now, ticks, switches, calls, fresh, okCalls, tracked>>

\* keys(): the order of insertion is not modelled
CKeys ==
    /\ last' = [op |-> "keys", key |-> <<>>, outcome |-> "return",
                result |-> DOMAIN listCache]
    /\ UNCHANGED <<search, namespace, listCache, secretCache, store, applied, returned,
                   inflight, now, ticks, switches, calls, fresh, okCalls, tracked>>

CTick ==
    /\ now < MaxNow
    /\ now' = now + 1
    /\ UNCHANGED <<search, namespace, listCache, secretCache, store, applied, returned,
                   inflight, ticks, switches, calls, last, fresh, okCalls, tracked>>

NextCache ==
    \/ \E key \in CacheKeys : CGet(key)
    \/ \E key \in CacheKeys : CHas(key)
    \/ \E key \in CacheKeys, data \in CacheValues, ttl \in CacheTtls : CSet(key, data, ttl)
    \/ \E key \in CacheKeys : CInvalidate(key)
    \/ CClear
    \/ CPurgeExpired
    \/ \E pattern \in CachePatterns : CInvalidatePattern(pattern)
    \/ CSize
    \/ CKeys
    \/ CTick

SpecCache == Init /\ [][NextCache]_vars

(***************************************************************************)
(* The search specification: searchSecrets called on a client without a    *)
(* namespace, over a store that holds one of two trees and may fail any    *)
(* request with a server error, while the caller may abort the signal      *)
(***************************************************************************)
PathJ == <<"a", "/", "j">>
\* the folder a with the leaves j and k
TreeFolder ==
    [sp \in {PathA, PathJ, PathK} |->
        IF sp = PathA THEN 0 ELSE IF sp = PathJ THEN 1 ELSE 2]
\* the same with a secret a next to the folder a: the root lists "a" and "a/"
TreeTwin == [sp \in {PathA, PathJ, PathK} |-> IF sp = PathJ THEN 1 ELSE 2]

\* queries: the name k in upper case, the key of every data object in upper
\* case, a value held by some data objects, and the empty query, which
\* every name contains
SearchQueries == {<<"K">>, <<"T">>, <<"2">>, <<>>}
BasePaths == {<<>>, DEFAULT_MOUNT}
MaxResultsValues == {0, 1, 2}
MaxDepthValues == {0, 1}

InitSearch ==
    /\ namespace = None
    /\ listCache = EmptyCache
    /\ secretCache = EmptyCache
    /\ store \in {[h \in Headers |-> tree] : tree \in {TreeFolder, TreeTwin}}
    /\ inflight = EmptyBag
    /\ now = 0
    /\ ticks = 0
    /\ calls = 0
    /\ switches = 0
    /\ applied = [h \in Headers |-> [sp \in StorePaths |-> 0]]
    /\ returned = [h \in Headers |-> [sp \in StorePaths |-> 0]]
    /\ last = NoLast
    /\ fresh = {}
    /\ okCalls = {}
    /\ tracked = EmptyCache
    /\ search = NoSearch

NextSearch ==
    \/ \E query \in SearchQueries, basePath \in BasePaths, signalAborted \in BOOLEAN,
          maxResults \in MaxResultsValues, maxDepth \in MaxDepthValues :
          SearchStart(query, basePath, signalAborted, maxResults, maxDepth)
    \/ Abort
    \/ \E req \in Requests : SearchListDone(req)
    \/ \E req \in Requests : SearchReadDone(req)
    \/ \E b \in search.waiting : SearchListCached(b)
    \/ \E b \in search.waiting : SearchReadCached(b)
    \/ SearchReturn
    \/ \E req \in Requests : Serve(req)
    \/ \E req \in Requests : ServeStatus(req, 500, None)

SpecSearch == InitSearch /\ [][NextSearch]_vars

(***************************************************************************)
(* The path-utilities specification: the static functions of               *)
(* VaultPathUtils and the result mapping of listSecrets, applied to        *)
(* arbitrary short strings; the functions are pure, so a behaviour is one   *)
(* application                                                             *)
(***************************************************************************)
\* the strings of at most n characters over chars
Strings(chars, n) == UNION {[1..k -> chars] : k \in 0..n}

\* buildCacheKey applied to two triples of prefix, path and namespace
UtilBuildCacheKey(k1, p1, n1, k2, p2, n2) ==
    /\ last' = [op |-> "buildCacheKey",
                prefix1 |-> k1, path1 |-> p1, ns1 |-> n1, key1 |-> buildCacheKey(k1, p1, n1),
                prefix2 |-> k2, path2 |-> p2, ns2 |-> n2, key2 |-> buildCacheKey(k2, p2, n2)]
    /\ UNCHANGED <<namespace, listCache, secretCache, store, inflight, now, ticks, calls,
                   switches, applied, returned, fresh, okCalls, tracked, search>>

\* normalizePath applied once and twice
UtilNormalizePath(path) ==
    /\ last' = [op |-> "normalizePath", path |-> path, once |-> normalizePath(path),
                twice |-> normalizePath(normalizePath(path))]
    /\ UNCHANGED <<namespace, listCache, secretCache, store, inflight, now, ticks, calls,
                   switches, applied, returned, fresh, okCalls, tracked, search>>

\* joinPaths(a, b) and joinPaths(a, "", b)
UtilJoinPaths(a, b) ==
    /\ last' = [op |-> "joinPaths", a |-> a, b |-> b, two |-> joinPaths(<<a, b>>),
                three |-> joinPaths(<<a, <<>>, b>>)]
    /\ UNCHANGED <<namespace, listCache, secretCache, store, inflight, now, ticks, calls,
                   switches, applied, returned, fresh, okCalls, tracked, search>>

\* cleanSecretPath applied once and twice
UtilCleanSecretPath(path) ==
    /\ last' = [op |-> "cleanSecretPath", path |-> path, once |-> cleanSecretPath(path),
                twice |-> cleanSecretPath(cleanSecretPath(path))]
    /\ UNCHANGED <<namespace, listCache, secretCache, store, inflight, now, ticks, calls,
                   switches, applied, returned, fresh, okCalls, tracked, search>>

\* the result mapping of listSecrets(path) applied to the keys of a response
UtilListResults(path, keys) ==
    /\ last' = [op |-> "listResults", path |-> path, keys |-> keys,
                items |-> ListResults(path, keys)]
    /\ UNCHANGED <<namespace, listCache, secretCache, store, inflight, now, ticks, calls,
                   switches, applied, returned, fresh, okCalls, tracked, search>>

\* prefixes are the two kinds of entry; paths and namespaces are strings of
\* letters and colons, a namespace may also be absent, empty or named "root";
\* paths to normalise, join and list are strings of letters and slashes;
\* paths to clean also begin with the mount name, once or twice; the keys
\* of a response name leaves and folders; no function is applied to the
\* outcome of another
NextUtils ==
    LET KeyStrings == Strings({"a", ":"}, MaxKeyLen)
        KeyNamespaces == {None, Some(StrRoot)} \cup {Some(s) : s \in KeyStrings}
        PathStrings == Strings({"a", "/"}, MaxPathLen)
        MountPaths == {m \o s : m \in {<<>>, DEFAULT_MOUNT,
                                       DEFAULT_MOUNT \o <<"/">> \o DEFAULT_MOUNT},
                                s \in PathStrings}
        ListedPaths == PathStrings \cup {DEFAULT_MOUNT, DEFAULT_MOUNT \o <<"/", "a">>}
        KeyNames == {<<"a">>, <<"a", "/">>, <<"k">>, <<"k", "/">>}
    IN  \/ /\ last = NoLast
           /\ \E k1, k2 \in {PrefixList, PrefixSecret}, p1, p2 \in KeyStrings,
                 n1, n2 \in KeyNamespaces : UtilBuildCacheKey(k1, p1, n1, k2, p2, n2)
        \/ /\ last = NoLast
           /\ \E path \in PathStrings : UtilNormalizePath(path)
        \/ /\ last = NoLast
           /\ \E a, b \in PathStrings : UtilJoinPaths(a, b)
        \/ /\ last = NoLast
           /\ \E path \in MountPaths : UtilCleanSecretPath(path)
        \/ /\ last = NoLast
           /\ \E path \in ListedPaths, k1, k2 \in KeyNames :
                 UtilListResults(path, IF k1 = k2 THEN <<k1>> ELSE <<k1, k2>>)

SpecUtils == Init /\ [][NextUtils]_vars

(***************************************************************************)
(* The single-writer specification: one client without a namespace is the  *)
(* only writer of the store and makes one call at a time; every request    *)
(* is answered from the contents of the store and the clock stands still.  *)
(* Paths are given with and without the mount name.                        *)
(***************************************************************************)
\* the store holds the leaf j and may hold the leaf a/k
InitAlone ==
    /\ namespace = None
    /\ listCache = EmptyCache
    /\ secretCache = EmptyCache
    /\ store \in {[h \in Headers |->
                       [sp \in {PathK, <<"j">>} |-> IF sp = PathK THEN d ELSE 1]] :
                   d \in {0, 1}}
    /\ inflight = EmptyBag
    /\ now = 0
    /\ ticks = 0
    /\ calls = 0
    /\ switches = 0
    /\ applied = [h \in Headers |-> [sp \in StorePaths |-> 0]]
    /\ returned = [h \in Headers |-> [sp \in StorePaths |-> 0]]
    /\ last = NoLast
    /\ fresh = {}
    /\ okCalls = {}
    /\ tracked = EmptyCache
    /\ search = NoSearch

NextAlone ==
    \/ \E path \in {<<>>, PathA, PathSecretA} : Idle /\ ListHit(path)
    \/ \E path \in {<<>>, PathA, PathSecretA} : Idle /\ ListMiss(path)
    \/ \E path \in {PathK, PathSecretK} : Idle /\ ReadHit(path)
    \/ \E path \in {PathK, PathSecretK} : Idle /\ ReadMiss(path)
    \/ \E path \in {PathK, PathSecretK}, data \in DataValues : Idle /\ WriteStart(path, data)
    \/ \E path \in {PathK, PathSecretK} : Idle /\ DeleteStart(path)
    \/ \E req \in Requests : ListDone(req)
    \/ \E req \in Requests : ReadDone(req)
    \/ \E req \in Requests : WriteDone(req)
    \/ \E req \in Requests : DeleteDone(req)
    \/ \E req \in Requests : Serve(req)

SpecAlone == InitAlone /\ [][NextAlone]_vars

(***************************************************************************)
(* The endless-tree specification: searchSecrets over a store in which     *)
(* every folder holds a folder a and a secret k, so that the tree repeats  *)
(* itself without end. Every request is answered, with the listing, the    *)
(* secret or a server error. Only the part of the tree down to paths of    *)
(* MaxTreeLen characters is followed: a request for a longer path gets no  *)
(* answer, and a search that asks for one never resolves. A behaviour has  *)
(* at most two searches, the second one finding the caches filled by the   *)
(* first; the signal is not aborted when a search starts. The queries are   *)
(* the one that only contents match and the one that every name matches.   *)
(***************************************************************************)
\* the request is for a path in the part of the tree that is followed
InTree(req) ==
    Len(IF req.op = "list" THEN UrlDir(req.url) ELSE UrlSecret(req.op, req.url)) <= MaxTreeLen

\* the store answers a LIST with the keys "a/" and "k" and a GET with the
\* data of the secret
ServeEndless(req) ==
    /\ Sent(req, {"list", "read"})
    /\ InTree(req)
    /\ Answer(req, IF req.op = "list" THEN OkResp(<<<<"a", "/">>, <<"k">>>>, 0)
                   ELSE OkResp(<<>>, 2), 0)
    /\ UNCHANGED <<search, namespace, listCache, secretCache, store, now, ticks, switches,
                   calls, applied, returned, last, fresh, okCalls, tracked>>

\* the steps that follow from a wire call completing and from the event
\* loop running the continuations of settled promises
SearchProgress ==
    \/ \E req \in Requests : InTree(req) /\ ServeEndless(req)
    \/ \E req \in Requests : InTree(req) /\ ServeStatus(req, 500, None)
    \/ \E req \in Requests : SearchListDone(req)
    \/ \E req \in Requests : SearchReadDone(req)
    \/ \E b \in search.waiting : SearchListCached(b)
    \/ \E b \in search.waiting : SearchReadCached(b)
    \/ SearchReturn

NextEndless ==
    \/ \E query \in {<<"T">>, <<>>}, basePath \in BasePaths,
          maxResults \in MaxResultsValues, maxDepth \in MaxDepthValues :
          search.runs < 2 /\ SearchStart(query, basePath, FALSE, maxResults, maxDepth)
    \/ Abort
    \/ SearchProgress

\* a step of SearchProgress can be taken: a request in the followed part of
\* the tree waits for its answer, an answer or a cached value waits for its
\* continuation, or the search has no branch left and can resolve
CanProgress ==
    \/ \E req \in Requests : Sent(req, {"list", "read"}) /\ InTree(req)
    \/ /\ search.status = "running"
       /\ \/ Ready # {}
          \/ AllSettled(search)
          \/ \E req \in Requests, b \in search.waiting :
                req.phase = "resp" /\ b.op = req.op /\ b.path = req.path /\ b.cached = None

\* every wire call completes and the event loop runs what is ready: weak
\* fairness of SearchProgress, with CanProgress for its enabling condition
SpecEndless ==
    /\ Init /\ [][NextEndless]_vars
    /\ ([]<>(~CanProgress) \/ []<><<SearchProgress>>_vars)

(***************************************************************************)
(* Properties                                                              *)
(***************************************************************************)
KindCache(kind) == IF kind = PrefixList THEN listCache ELSE secretCache
KindOp(kind) == IF kind = PrefixList THEN "list" ELSE "read"
KindMinutes(kind) == IF kind = PrefixList THEN 5 ELSE 2

\* the step issues a wire call of operation op for path
Issues(op, path) ==
    /\ calls' = calls + 1
    /\ \E req \in BagToSet(inflight') :
          /\ req.op = op /\ req.path = path /\ req.phase = "sent"
          /\ inflight' = inflight (+) One(req)

\* the step is the continuation of the settled call req
Completes(req) == req.phase = "resp" /\ inflight' = inflight (-) One(req)

\* the step is the continuation of a successful writeSecret or deleteSecret
MutationReturns(req) ==
    /\ req.op \in {"write", "delete"}
    /\ req.resp.kind = "ok"
    /\ Completes(req)

\* cache c2 is cache c1 without the key, every other entry as it was
Without(c1, c2, key) ==
    /\ DOMAIN c2 = DOMAIN c1 \ {key}
    /\ \A k \in DOMAIN c2 : c2[k] = c1[k]

\* the lookup a call for the pair f = <<kind, path>> would make now
LookupNow(f) ==
    IF f[1] = "list"
    THEN CacheGet(listCache, PrefixList \o <<":">> \o f[2] \o <<":">>
                      \o (IF Truthy(namespace) THEN namespace[1] ELSE StrRoot), now)
    ELSE CacheGet(secretCache, PrefixSecret \o <<":">> \o f[2] \o <<":">>
                      \o (IF Truthy(namespace) THEN namespace[1] ELSE StrRoot), now)

\* C1: after a writeSecret(p) that returned while nothing else was in flight,
\* the lookups of readSecret(p) and of listSecrets(parentOf(p)) miss until the
\* next such call is made, and that next call issues a wire call
WriteCoherence ==
    [][\A f \in fresh :
          /\ LookupNow(f) = None
          /\ f \notin fresh' => Issues(IF f[1] = "list" THEN "list" ELSE "read", f[2])]_vars

\* C1 witness: a quiet writeSecret has returned and removed both cached entries
WriteCoherenceWitness ==
    /\ last.op = "write" /\ last.outcome = "return" /\ last.evicted = 2
    /\ fresh = {<<"secret", PathK>>, <<"list", PathA>>}

\* C2: a readSecret served from the cache never returns a value that was
\* fetched before a writeSecret/deleteSecret of the same path returned
NoStaleValueAfterMutation ==
    (last.op = "read" /\ last.hit) => ~last.stale

\* C3: a successful writeSecret/deleteSecret of path removes the value entry of
\* path and the listing entry of parentOf(path), both under the current
\* namespace, and leaves every other entry of both caches as it was
ExactInvalidation ==
    [][\A req \in Requests : MutationReturns(req) =>
          LET nsKey == IF Truthy(namespace) THEN namespace[1] ELSE StrRoot
              path == req.path
          IN  /\ Without(secretCache, secretCache',
                         PrefixSecret \o <<":">> \o path \o <<":">> \o nsKey)
              /\ Without(listCache, listCache',
                         PrefixList \o <<":">> \o ParentOf(path) \o <<":">> \o nsKey)]_vars

\* C3 witness: a mutation returned, removed an entry and left another one
ExactInvalidationWitness ==
    /\ last.op \in {"write", "delete"} /\ last.outcome = "return" /\ last.evicted >= 1
    /\ CacheSize(listCache) + CacheSize(secretCache) >= 1

\* C4: updateNamespace leaves both caches empty, so that every lookup under
\* the new namespace misses
NamespaceSwitchClears ==
    [][switches' = switches + 1 =>
          /\ CacheSize(listCache') = 0
          /\ CacheSize(secretCache') = 0
          /\ \A path \in ListPaths :
                CacheGet(listCache', buildCacheKey(PrefixList, path, namespace'), now') = None
          /\ \A path \in SecretPaths :
                CacheGet(secretCache', buildCacheKey(PrefixSecret, path, namespace'), now')
                   = None]_vars

\* C4 witness: updateNamespace to the namespace already in effect removed two entries
NamespaceSwitchClearsWitness ==
    /\ last.op = "updateNamespace" /\ last.evicted = 2
    /\ last.ns = None /\ namespace = None

\* C5: whatever listSecrets/readSecret serves from the cache under namespace N
\* was fetched by a wire call that carried namespace N
NamespaceIsolation ==
    last.hit => last.src.hdr = Header(last.ns)

\* C6 as claimed: get returns the stored value while now - t0 < ttl and null
\* as soon as now - t0 >= ttl
TtlExpiryAtTtl ==
    (last.op = "get" /\ last.known) =>
        /\ last.at - last.stored.timestamp < last.stored.ttl
              => last.result = Some(last.stored.data)
        /\ last.at - last.stored.timestamp >= last.stored.ttl => last.result = None

\* C6 amended: get returns the stored value while now - t0 <= ttl and null
\* once now - t0 > ttl, whether or not purgeExpired has run
TtlExpiryAfterTtl ==
    (last.op = "get" /\ last.known) =>
        /\ last.at - last.stored.timestamp <= last.stored.ttl
              => last.result = Some(last.stored.data)
        /\ last.at - last.stored.timestamp > last.stored.ttl => last.result = None

\* C6 witness: a get exactly ttl after the set returned the value
TtlExpiryWitness ==
    /\ last.op = "get" /\ last.known
    /\ last.stored.ttl > 0
    /\ last.at - last.stored.timestamp = last.stored.ttl
    /\ last.result = Some(last.stored.data)

\* C7: while a call answered from the wire is younger than its TTL (5 minutes
\* for listings, 2 for values) and was neither invalidated nor followed by a
\* namespace switch, the same call is answered from the cache with the cached
\* result and issues no wire call
CacheHitAvoidsWire ==
    [][\A o \in okCalls :
          (o.ns = namespace /\ now - o.t0 < KindMinutes(o.kind) * 60 * 1000) =>
             LET key == buildCacheKey(o.kind, o.path, namespace)
             IN  /\ CacheGet(KindCache(o.kind), key, now) # None
                 /\ ~Issues(KindOp(o.kind), o.path)
                 /\ (last' # last /\ last'.hit /\ last'.op = KindOp(o.kind)
                        /\ last'.path = o.path) =>
                       IF o.kind = PrefixList
                       THEN last'.items = listCache[key].data
                       ELSE last'.secret = secretCache[key].data.data]_vars

\* C7 witness: a cached empty listing was served after the clock had advanced
CacheHitAvoidsWireWitness ==
    /\ last.op = "list" /\ last.hit /\ last.items = <<>>
    /\ \E o \in okCalls : o.kind = PrefixList /\ o.path = last.path /\ o.t0 < now

\* C8: a not-found response to the list call makes listSecrets return the
\* empty array, whatever the error body
NotFoundListsEmpty ==
    (last.op = "list" /\ last.resp.kind = "status" /\ last.resp.status = NOT_FOUND) =>
        (last.outcome = "return" /\ last.items = <<>>)

\* C9: listSecrets throws on every failure other than a not-found response,
\* and readSecret, writeSecret and deleteSecret throw on a not-found response
OnlyNotFoundAbsorbed ==
    /\ (/\ last.op = "list"
        /\ last.resp.kind \in {"status", "noresp", "error", "nonerror"}
        /\ ~(last.resp.kind = "status" /\ last.resp.status = NOT_FOUND))
          => last.outcome = "throw"
    /\ (/\ last.op \in {"read", "write", "delete"}
        /\ last.resp.kind = "status" /\ last.resp.status = NOT_FOUND)
          => last.outcome = "throw"

\* C10: the continuation of testConnection returns {success: true} after
\* a successful probe and {success: false, error: message} after any failure,
\* never throws, and leaves both caches as they were
TestConnectionNeverThrows ==
    [][\A req \in Requests :
          (req.op = "health" /\ Completes(req)) =>
             /\ last'.op = "health"
             /\ last'.outcome = "return"
             /\ last'.secret = (IF req.resp.kind = "ok" THEN 1 ELSE 0)
             /\ req.resp.kind # "ok" => last'.error.message # <<>>
             /\ req.resp.kind = "ok" => last'.error = NoError
             /\ listCache' = listCache
             /\ secretCache' = secretCache]_vars

\* C10 witness: a probe rejected with a non-Error value returned {success: false}
\* while the caches held entries
TestConnectionWitness ==
    /\ last.op = "health" /\ last.outcome = "return" /\ last.secret = 0
    /\ last.resp.kind = "nonerror"
    /\ CacheSize(listCache) + CacheSize(secretCache) >= 1

\* C19: invalidatePattern(s) with a string s removes exactly the keys that
\* begin with s, and every other key keeps its entry
PrefixInvalidation ==
    [][\A s \in CachePatterns :
          CInvalidatePattern(s) =>
             /\ DOMAIN listCache' = {k \in DOMAIN listCache : ~StartsWith(k, s)}
             /\ \A k \in DOMAIN listCache' :
                   /\ listCache'[k] = listCache[k]
                   /\ CacheGet(listCache', k, now') = CacheGet(listCache, k, now)]_vars

\* C20: no operation of the cache throws, and get of a key that was never
\* set or has expired returns null
CacheTotal ==
    last.op \in {"get", "set", "has", "invalidate", "invalidatePattern", "clear",
                 "purgeExpired", "size", "keys"} =>
        /\ last.outcome = "return"
        /\ (last.op = "get" /\ ~last.known) => last.result = None
        /\ (last.op = "get" /\ last.known /\ isExpired(last.stored, last.at))
              => last.result = None

(***************************************************************************)
(* Properties of searchSecrets                                             *)
(***************************************************************************)
SegCount(p) == Len(Split(p, "/"))
LastSeg(p) == Split(p, "/")[SegCount(p)]

\* the path below basePath
RelPath(base, p) ==
    IF p = base THEN <<>> ELSE IF base = <<>> THEN p ELSE Substring(p, Len(base) + 1)

\* recursion depth of a folder: 0 for basePath, one more for each nested folder
FolderDepth(base, p) == IF RelPath(base, p) = <<>> THEN 0 ELSE SegCount(RelPath(base, p))

\* recursion depth of the folder in which the child p is found
ParentDepth(base, p) == SegCount(RelPath(base, p)) - 1

\* s contains q, letters compared without regard to case
SameLetter(c, d) ==
    c = d \/ \E i \in 1..Len(UpperChars) : {c, d} = {UpperChars[i], LowerChars[i]}

ContainsNoCase(s, q) ==
    \E i \in 1..(Len(s) - Len(q) + 1) : \A j \in 1..Len(q) : SameLetter(s[i + j - 1], q[j])

\* the tree of the store and the folders in it
Tree == store[None]
Leaves == {sp \in DOMAIN Tree : Tree[sp] # 0}
Folders ==
    UNION {{SubSeq(sp, 1, i - 1) : i \in {j \in 1..Len(sp) : sp[j] = "/"}} : sp \in Leaves}

\* the path a search from base gives to the child rel of the tree
Under(base, rel) == IF base = <<>> THEN rel ELSE base \o <<"/">> \o rel

\* the children within maxDepth that match the query by name or by content,
\* as pairs of path and folder flag
Matching(base, q, maxDepth) ==
    {<<Under(base, sp), FALSE>> : sp \in {x \in Leaves :
        /\ SegCount(x) - 1 <= maxDepth
        /\ \/ ContainsNoCase(LastSeg(x), q)
           \/ ContainsNoCase(Stringify(Tree[x]), q)}}
    \cup
    {<<Under(base, d), TRUE>> : d \in {x \in Folders :
        /\ SegCount(x) - 1 <= maxDepth
        /\ ContainsNoCase(LastSeg(x), q)}}

Expected == Matching(search.basePath, search.query, search.maxDepth)
ReturnedSet == {<<search.returned[i].path, search.returned[i].isFolder>> :
                   i \in 1..Len(search.returned)}

\* C11: a search started with an aborted signal makes no listSecrets or
\* readSecret call, issues no wire call, and resolves to the empty array
CancelledBeforeStart ==
    search.preAborted =>
        /\ search.made = {} /\ search.wire = 0 /\ search.waiting = {}
        /\ search.status = "done" => (search.outcome = "return" /\ search.returned = <<>>)

\* C11 witness: such a search has resolved, with a limit and a depth that
\* would have let it run
CancelledBeforeStartWitness ==
    /\ search.preAborted /\ search.status = "done"
    /\ search.maxResults > 0 /\ search.maxDepth > 0

\* C12: once the signal of a running search is set, no step makes a
\* listSecrets or readSecret call or issues a wire call
NoCallsAfterAbort ==
    [][(search.status = "running" /\ search.aborted) =>
          /\ search'.made = search.made
          /\ search'.wire = search.wire
          /\ calls' = calls]_vars

\* C12 witness: a search was aborted while its first listing was in flight;
\* the listing was answered with items and nothing more was called
NoCallsAfterAbortWitness ==
    /\ search.status = "done" /\ search.aborted /\ ~search.preAborted /\ ~search.failed
    /\ search.maxDepth = 1 /\ search.maxResults = 2 /\ search.results = <<>>
    /\ search.wire = 1 /\ Cardinality(search.made) = 1

\* C13: the array a search returns holds no item that was recorded after
\* the signal was set
LateResultsDiscarded ==
    search.status = "done" =>
        \A i \in 1..Len(search.returned) : ~search.late[i]

\* C14: the returned array has at most maxResults elements
MaxResultsCap ==
    search.status = "done" => Len(search.returned) <= search.maxResults

\* C14 witness: the accumulator held more than maxResults items and the
\* returned array holds maxResults
MaxResultsCapWitness ==
    /\ search.status = "done"
    /\ Len(search.results) > search.maxResults
    /\ Len(search.returned) = search.maxResults
    /\ search.maxResults > 0

\* C15: a search that was not cancelled and saw no failure returns exactly
\* maxResults items when more than maxResults items of the tree match
ExactlyMaxResults ==
    (/\ search.status = "done" /\ ~search.aborted /\ ~search.failed
     /\ Cardinality(Expected) > search.maxResults)
        => Len(search.returned) = search.maxResults

\* C16: no folder deeper than maxDepth is listed, no leaf found in such a
\* folder is read, and no returned item was found in such a folder
DepthBound ==
    /\ \A c \in search.made :
          IF c.op = "list" THEN FolderDepth(search.basePath, c.path) <= search.maxDepth
          ELSE ParentDepth(search.basePath, c.path) <= search.maxDepth
    /\ \A i \in 1..Len(search.returned) :
          ParentDepth(search.basePath, search.returned[i].path) <= search.maxDepth

\* C16 witness: a search with maxDepth 0 returned the folder a, which it did
\* not list although neither the signal nor the limit stopped it
DepthBoundWitness ==
    /\ search.status = "done" /\ ~search.aborted /\ ~search.failed
    /\ search.maxDepth = 0 /\ Len(search.results) < search.maxResults
    /\ \E i \in 1..Len(search.returned) : search.returned[i].isFolder
    /\ Cardinality(search.made) = 1

\* C17: a search that was not cancelled and saw no failure returns exactly
\* the matching children of the tree when fewer than maxResults match
SearchComplete ==
    (/\ search.status = "done" /\ ~search.aborted /\ ~search.failed
     /\ Cardinality(Expected) < search.maxResults)
        => ReturnedSet = Expected

\* C18: the search never rejects; the continuation of a failed listSecrets
\* or readSecret call leaves the results and the other branches as they
\* were; and a leaf whose name matches is returned even if reading it failed
FailuresDoNotAbort ==
    [][/\ \A req \in Requests :
             (search.status = "running" /\ req.resp.kind # "ok" /\ Completes(req)) =>
                /\ search'.status = "running"
                /\ search'.results = search.results
                /\ search'.waiting =
                      {b \in search.waiting : ~(b.op = req.op /\ b.path = req.path)}
       /\ search'.status = "done" =>
             /\ search'.outcome = "return"
             /\ search'.returned = Slice(search'.results, search'.maxResults)
             /\ \A p \in search'.readFailed :
                   (/\ ContainsNoCase(LastSeg(p), search'.query)
                    /\ Len(search'.results) <= search'.maxResults)
                      => \E i \in 1..Len(search'.returned) : search'.returned[i].path = p]_vars

\* C18 witness: a search returned a leaf found by its name whose read had
\* failed, together with an item found in another branch
FailuresDoNotAbortWitness ==
    /\ search.status = "done" /\ search.readFailed # {}
    /\ \E i \in 1..Len(search.returned) : search.returned[i].path \in search.readFailed
    /\ Len(search.returned) = 2

(***************************************************************************)
(* Properties of VaultPathUtils and of the result mapping of listSecrets   *)
(***************************************************************************)
\* the namespace a key is built for: an absent or empty namespace is the root
EffectiveNs(ns) == IF Truthy(ns) THEN ns ELSE None

\* C21: two cache keys are equal if and only if prefix, path and effective
\* namespace are equal
CacheKeyEquality ==
    last.op = "buildCacheKey" =>
        (last.key1 = last.key2 <=>
            /\ last.prefix1 = last.prefix2
            /\ last.path1 = last.path2
            /\ EffectiveNs(last.ns1) = EffectiveNs(last.ns2))

\* C22: normalizePath applied twice gives what it gives applied once, and an
\* empty segment between two segments does not change what joinPaths gives
PathIdempotence ==
    /\ last.op = "normalizePath" => last.twice = last.once
    /\ last.op = "joinPaths" => last.three = last.two

\* C22 witness: normalizePath changed a path with a doubled and a trailing
\* slash
PathIdempotenceWitness ==
    /\ last.op = "normalizePath"
    /\ Includes(last.path, <<"/", "/">>) /\ EndsWith(last.path, <<"/">>)
    /\ Includes(last.path, <<"a">>)
    /\ last.once # last.path

\* C23: cleanSecretPath applied twice gives what it gives applied once, and a
\* path that does not begin with the mount name and a slash is left as it is
CleanIdempotence ==
    last.op = "cleanSecretPath" =>
        /\ last.twice = last.once
        /\ ~StartsWith(last.path, DEFAULT_MOUNT \o <<"/">>) => last.once = last.path

\* C28: every key of the response gives an entry whose name is the key
\* without its trailing slash, whose isFolder tells whether the key ends
\* with a slash, and whose path is joinPaths(path, key)
ChildEntries ==
    last.op = "listResults" =>
        /\ Len(last.items) = Len(last.keys)
        /\ \A i \in 1..Len(last.keys) :
              /\ last.items[i].name = StripTrailingSlash(last.keys[i])
              /\ last.items[i].isFolder = EndsWith(last.keys[i], <<"/">>)
              /\ last.items[i].path = joinPaths(<<last.path, last.keys[i]>>)

(***************************************************************************)
(* Properties of the single-writer client                                  *)
(***************************************************************************)
\* what listSecrets(path) gives when it is answered by the store as it is now
StoreListing(path) ==
    LET resp == StoreList(store[Header(namespace)], buildListUrl(path))
    IN  IF resp.kind = "ok" THEN ListResults(path, resp.keys) ELSE <<>>

\* C24: a listing served from the cache is the listing the store would give
ListingCoherence ==
    [][\A path \in {<<>>, PathA, PathSecretA} :
          ListHit(path) => last'.items = StoreListing(path)]_vars

\* the paths other than path that address the same secret
Aliases(path) ==
    {q \in {PathK, PathSecretK} :
        q # path /\ buildSecretUrl(q, SegData) = buildSecretUrl(path, SegData)}

\* the paths that address the folder of the secret at path, other than the
\* parent of path
ParentAliases(path) ==
    {q \in {PathA, PathSecretA} :
        q # extractParentPath(path) /\ buildListUrl(q) = buildListUrl(extractParentPath(path))}

\* C25: the value and the listing cached under one literal path are kept
\* under keys of their own, and a successful writeSecret or deleteSecret
\* given another literal for the same secret removes exactly the entries
\* keyed by its own literal and leaves those entries in place
LiteralPathKeys ==
    [][\A req \in Requests :
          (req.resp.kind = "ok" /\ (WriteDone(req) \/ DeleteDone(req))) =>
             /\ DOMAIN secretCache' =
                   DOMAIN secretCache \ {buildCacheKey(PrefixSecret, req.path, namespace)}
             /\ DOMAIN listCache' =
                   DOMAIN listCache
                      \ {buildCacheKey(PrefixList, extractParentPath(req.path), namespace)}
             /\ \A q \in Aliases(req.path) :
                   LET key == buildCacheKey(PrefixSecret, q, namespace)
                   IN  /\ key # buildCacheKey(PrefixSecret, req.path, namespace)
                       /\ key \in DOMAIN secretCache =>
                             (key \in DOMAIN secretCache' /\ secretCache'[key] = secretCache[key])
             /\ \A q \in ParentAliases(req.path) :
                   LET key == buildCacheKey(PrefixList, q, namespace)
                   IN  key \in DOMAIN listCache =>
                          (key \in DOMAIN listCache' /\ listCache'[key] = listCache[key])]_vars

\* C25 witness: a secret was read through both literals and then written
\* through one of them; the write removed one entry and the entry of the
\* other literal is still cached
LiteralPathKeysWitness ==
    /\ last.op = "write" /\ last.outcome = "return" /\ last.evicted = 1
    /\ \E q \in Aliases(last.path) :
          buildCacheKey(PrefixSecret, q, namespace) \in DOMAIN secretCache

(***************************************************************************)
(* Properties of failed calls                                              *)
(***************************************************************************)
\* C29: the continuation of a call whose request failed leaves both caches
\* as they were; after a failed listSecrets (also one that returns [] for
\* a not-found response) or readSecret the key of the call has no entry,
\* and a failed writeSecret or deleteSecret removes no entry
CachesUnchangedOnFailure ==
    [][\A req \in Requests :
          (/\ req.phase = "resp" /\ req.resp.kind # "ok"
           /\ \/ ListDone(req) \/ ReadDone(req) \/ WriteDone(req) \/ DeleteDone(req)
              \/ HealthDone(req)) =>
             /\ listCache' = listCache
             /\ secretCache' = secretCache
             /\ req.op = "list" => CacheGet(listCache', req.key, now') = None
             /\ req.op = "read" => CacheGet(secretCache', req.key, now') = None]_vars

\* C29 witness: a listing that was not found returned [] while the value
\* cache held an entry
CachesUnchangedOnFailureWitness ==
    /\ last.op = "list" /\ last.outcome = "return" /\ last.resp.kind # "ok"
    /\ last.items = <<>>
    /\ secretCache # EmptyCache

(***************************************************************************)
(* Properties of the search, continued                                     *)
(***************************************************************************)
\* C26: within one search no listSecrets and no readSecret is called twice
\* for one path, a path is either listed or read, and neither results nor
\* the returned array holds two items with the same path
VisitOnce ==
    /\ ~search.repeated
    /\ \A c1, c2 \in search.made : c1.path = c2.path => c1.op = c2.op
    /\ \A i, j \in 1..Len(search.results) :
          search.results[i].path = search.results[j].path => i = j
    /\ \A i, j \in 1..Len(search.returned) :
          search.returned[i].path = search.returned[j].path => i = j

\* C26 witness: a search for the empty query returned two items, one of them
\* a leaf that matched by its name and, after its read, by its content
VisitOnceWitness ==
    /\ search.status = "done" /\ search.outcome = "return"
    /\ search.query = <<>>
    /\ Len(search.returned) = 2
    /\ \E i \in 1..Len(search.returned) :
          /\ ~search.returned[i].isFolder
          /\ \E c \in search.made : c.op = "read" /\ c.path = search.returned[i].path
          /\ search.returned[i].path \notin search.readFailed

\* C27: when searchSecrets resolves no branch of it is suspended and none of
\* its listSecrets and readSecret calls is in flight, and while it stays
\* resolved its results and its resolved value do not change
FanInBeforeReturn ==
    [][/\ search'.status = "done" =>
             /\ search'.waiting = {}
             /\ inflight' = EmptyBag
       /\ (search.status = "done" /\ search'.status = "done") =>
             /\ search'.results = search.results
             /\ search'.returned = search.returned]_vars

\* C27 witness: a search resolved after two reads that it had started
\* together
FanInBeforeReturnWitness ==
    /\ search.status = "done" /\ search.outcome = "return"
    /\ \E c1, c2 \in search.made : c1.op = "read" /\ c2.op = "read" /\ c1.path # c2.path
    /\ search.wire >= 3

\* C30: over the endless tree every search that was started resolves
SearchTerminates == (search.status = "running") ~> (search.status = "done")

\* C30 witness: a search with maxDepth 1 resolved after listing the folder
\* a; it came upon the folder a/a and did not list it
SearchTerminatesWitness ==
    /\ search.status = "done" /\ search.outcome = "return"
    /\ search.maxDepth = 1 /\ ~search.aborted
    /\ \E c \in search.made : c.op = "list" /\ UrlDir(buildListUrl(c.path)) = PathA
    /\ \E p \in search.processedPaths : UrlDir(buildListUrl(p)) = <<"a", "/", "a">>
    /\ \A c \in search.made :
          c.op = "list" => Len(UrlDir(buildListUrl(c.path))) < MaxTreeLen

=============================================================================
